---- MODULE Spec2Model ----
(***************************************************************************)
(* Model of the anime recommendation engine (proj2.py): the weighted       *)
(* undirected Graph (add_vertex, add_edge), the Dijkstra loop shared by    *)
(* find_closest_anime / find_closest_candidates /                          *)
(* get_top_n_recommendations, their result selection, and                  *)
(* build_anime_graph.                                                      *)
(***************************************************************************)
EXTENDS Integers, Sequences, FiniteSets, TLC

\* ---------------------------------------------------------------- bounds
\* item identifiers are 1..MaxId
MaxId == 3
\* edge weights passed to add_edge are 1..MaxWeight
MaxWeight == 3
\* n passed to get_top_n_recommendations is 0..MaxN
MaxN == 2
\* add_edge is called while the graph stores at most MaxEdges edges
MaxEdges == 3
\* build_anime_graph reads at most MaxRows rows of the CSV file
MaxRows == 3
\* genre names are 1..MaxGenre, studio names 1..MaxStudio
MaxGenre == 1
MaxStudio == 1
MaxTextLen == 2
MaxThreads == 2

Ids == 1..MaxId
Weights == 1..MaxWeight
\* popularity ranks offered to add_vertex: 10 and 110 differ by exactly the
\* window, 500 is outside the window of both
PopValues == {10, 110, 500}

\* ------------------------------------------------------------- constants
\* math.inf: the unreachable distance and the unparseable popularity.  It is
\* larger than every distance and every rank of the model; the float
\* arithmetic on it is modelled by FAdd and WithinWindow below.
Inf == 1000000
\* Python's None, the "no recommendation" result (no item has identifier 0)
None == 0
\* popularity_window of find_closest_anime, the literal of find_closest_candidates
popularity_window == 100

Ranks == PopValues \cup {Inf}

\* the edge weights of build_anime_graph
GenreWeight == 2
StudioWeight == 3
RelatedWeight == 1

Genres == 1..MaxGenre
Studios == 1..MaxStudio
\* row["studio"] = "": the row names no studio
NoStudio == 0
\* n of the get_top_n_recommendations calls of main.py
RecListSize == 50
\* the components of the tuple data[anime_id], and the index main.py reads
\* the image address at
DataTupleLen == 4
ImageIndex == 4
\* pygame.time.get_ticks() at a click, any time after the start
Ticks == 1
\* the popularity column of a row: a number, or text int() rejects
RowRanks == {10, Inf}

\* ------------------------------------------------------- sequence helpers
Range(s) == {s[i] : i \in 1..Len(s)}

Min2(a, b) == IF a <= b THEN a ELSE b

\* a list comprehension [x for x in s if keep[x]]
RECURSIVE Filter(_, _)
Filter(s, keep) ==
    IF s = <<>> THEN <<>>
    ELSE IF Head(s) \in keep THEN <<Head(s)>> \o Filter(Tail(s), keep)
         ELSE Filter(Tail(s), keep)

\* the empty dict
EmptyDict == [x \in {} |-> 0]

\* d[k] = v on a dict d
Put(d, k, v) == [x \in (DOMAIN d) \cup {k} |-> IF x = k THEN v ELSE d[x]]

\* ------------------------------------------------------ float arithmetic
\* current_distance + weight (inf + x = inf)
FAdd(a, b) == IF a = Inf \/ b = Inf THEN Inf ELSE a + b

\* mutant of WithinWindow: the window of 1000 that the comment of
\* find_closest_anime names
WithinWindow_1000(p, q) ==
    IF p = Inf \/ q = Inf THEN FALSE
    ELSE (IF p >= q THEN p - q ELSE q - p) <= 1000

\* mutant of WithinWindow: an unknown rank handled as a large number, so
\* that two unknown ranks are at difference 0
WithinWindow_InfAsNumber(p, q) ==
    (IF p >= q THEN p - q ELSE q - p) <= popularity_window

\* abs(p - q) <= popularity_window on floats: inf - q = inf, and
\* inf - inf = nan, which compares False with everything
WithinWindow(p, q) ==
    IF p = Inf \/ q = Inf THEN FALSE
    ELSE (IF p >= q THEN p - q ELSE q - p) <= popularity_window

\* -------------------------------------------------------------- the Graph
\* A graph value: vertices is the key order of the _vertices dict,
\* neighbours[u] the neighbours dict of u's _Vertex, popularity the
\* popularity dict.
EmptyGraph == [vertices |-> <<>>, neighbours |-> EmptyDict, popularity |-> EmptyDict]

Registered(G) == Range(G.vertices)

\* mutant of add_vertex: the popularity is stored outside the "not in" test,
\* so a second registration overwrites the rank
add_vertex_Overwrite(G, item, pop) ==
    IF item \notin Registered(G)
    THEN [vertices   |-> Append(G.vertices, item),
          neighbours |-> Put(G.neighbours, item, EmptyDict),
          popularity |-> Put(G.popularity, item, pop)]
    ELSE [G EXCEPT !.popularity = Put(@, item, pop)]

add_vertex(G, item, pop) ==
    IF item \notin Registered(G)
    THEN [vertices   |-> Append(G.vertices, item),
          neighbours |-> Put(G.neighbours, item, EmptyDict),
          popularity |-> Put(G.popularity, item, pop)]
    ELSE G

\* mutant of add_edge: an endpoint that is not a vertex is registered on the
\* way (a neighbours dict created on demand), with an unknown rank
add_edge_AutoRegister(G, item1, item2, weight) ==
    LET G1 == IF item1 \in Registered(G) THEN G
              ELSE [vertices   |-> Append(G.vertices, item1),
                    neighbours |-> Put(G.neighbours, item1, EmptyDict),
                    popularity |-> Put(G.popularity, item1, Inf)]
        G2 == IF item2 \in Registered(G1) THEN G1
              ELSE [vertices   |-> Append(G1.vertices, item2),
                    neighbours |-> Put(G1.neighbours, item2, EmptyDict),
                    popularity |-> Put(G1.popularity, item2, Inf)]
        n1 == [G2.neighbours EXCEPT ![item1] = Put(@, item2, weight)]
        n2 == [n1 EXCEPT ![item2] = Put(@, item1, weight)]
    IN  [G2 EXCEPT !.neighbours = n2]

\* mutant of add_edge: only the first endpoint records the edge
add_edge_OneWay(G, item1, item2, weight) ==
    IF item1 \in Registered(G) /\ item2 \in Registered(G)
    THEN [G EXCEPT !.neighbours[item1] = Put(@, item2, weight)]
    ELSE G

\* mutant of add_edge: an edge already stored keeps its weight
add_edge_KeepFirst(G, item1, item2, weight) ==
    IF item1 \in Registered(G) /\ item2 \in Registered(G)
    THEN IF item2 \in DOMAIN G.neighbours[item1] THEN G
         ELSE LET n1 == [G.neighbours EXCEPT ![item1] = Put(@, item2, weight)]
                  n2 == [n1 EXCEPT ![item2] = Put(@, item1, weight)]
              IN  [G EXCEPT !.neighbours = n2]
    ELSE G

add_edge(G, item1, item2, weight) ==
    IF item1 \in Registered(G) /\ item2 \in Registered(G)
    THEN LET n1 == [G.neighbours EXCEPT ![item1] = Put(@, item2, weight)]
             n2 == [n1 EXCEPT ![item2] = Put(@, item1, weight)]
         IN  [G EXCEPT !.neighbours = n2]
    ELSE G

\* self.popularity.get(x, math.inf)
PopularityGet(G, x) == IF x \in DOMAIN G.popularity THEN G.popularity[x] ELSE Inf

\* ------------------------------------------------------ the Dijkstra loop
\* pq entries are tuples <<distance, anime_id>>; heapq orders them
\* lexicographically.  An entry is pushed only when it strictly lowers the
\* recorded distance of its vertex, so no entry is ever in the heap twice and
\* the heap is a set.
EntryLess(a, b) == a[1] < b[1] \/ (a[1] = b[1] /\ a[2] < b[2])

HeapMin(heap) == CHOOSE e \in heap : \A o \in heap : o = e \/ EntryLess(e, o)

\* mutant of RelaxedDistances: a distance is recorded once and never lowered
RelaxedDistances_NeverLowered(G, dist, vis, cur, curDist) ==
    [v \in DOMAIN dist |->
        IF /\ v \in DOMAIN G.neighbours[cur]
           /\ v \notin vis
           /\ dist[v] = Inf
        THEN FAdd(curDist, G.neighbours[cur][v])
        ELSE dist[v]]

\* the for loop over the neighbours of the popped vertex: every neighbour is
\* a different key of distances, so the relaxations are independent
RelaxedDistances(G, dist, vis, cur, curDist) ==
    [v \in DOMAIN dist |->
        IF /\ v \in DOMAIN G.neighbours[cur]
           /\ v \notin vis
           /\ FAdd(curDist, G.neighbours[cur][v]) < dist[v]
        THEN FAdd(curDist, G.neighbours[cur][v])
        ELSE dist[v]]

\* mutant of Pushed: an entry is pushed for every neighbour not visited,
\* whether or not it lowers the recorded distance
Pushed_Unconditional(G, dist, vis, cur, curDist) ==
    {<<FAdd(curDist, G.neighbours[cur][v]), v>> :
        v \in {x \in DOMAIN G.neighbours[cur] : x \notin vis}}

Pushed(G, dist, vis, cur, curDist) ==
    {<<FAdd(curDist, G.neighbours[cur][v]), v>> :
        v \in {x \in DOMAIN G.neighbours[cur] :
                  /\ x \notin vis
                  /\ FAdd(curDist, G.neighbours[cur][x]) < dist[x]}}

\* ------------------------------------------------------ result selection
\* mutant of CandidateScan: the start vertex is not skipped
RECURSIVE CandidateScan_WithSource(_, _, _, _, _)
CandidateScan_WithSource(order, dist, s, minDist, cands) ==
    IF order = <<>> THEN cands
    ELSE LET anime == Head(order)
             distance == dist[anime]
         IN  IF distance < minDist
             THEN CandidateScan_WithSource(Tail(order), dist, s, distance, <<anime>>)
             ELSE IF distance = minDist
             THEN CandidateScan_WithSource(Tail(order), dist, s, minDist, Append(cands, anime))
             ELSE CandidateScan_WithSource(Tail(order), dist, s, minDist, cands)

\* One pass of "for anime, distance in distances.items()" of
\* find_closest_anime, keeping (min_distance, closest_anime_candidates).
RECURSIVE CandidateScan(_, _, _, _, _)
CandidateScan(order, dist, s, minDist, cands) ==
    IF order = <<>> THEN cands
    ELSE LET anime == Head(order)
             distance == dist[anime]
         IN  IF anime # s /\ distance < minDist
             THEN CandidateScan(Tail(order), dist, s, distance, <<anime>>)
             ELSE IF anime # s /\ distance = minDist
             THEN CandidateScan(Tail(order), dist, s, minDist, Append(cands, anime))
             ELSE CandidateScan(Tail(order), dist, s, minDist, cands)

closest_anime_candidates(G, dist, s) == CandidateScan(G.vertices, dist, s, Inf, <<>>)

InWindow(G, s) == {a \in Registered(G) : WithinWindow(PopularityGet(G, a), PopularityGet(G, s))}

filtered_candidates(G, dist, s) == Filter(closest_anime_candidates(G, dist, s), InWindow(G, s))

\* min(seq, key=popularity): the first element with the least key
RECURSIVE MinByPopularity(_, _)
MinByPopularity(G, seq) ==
    IF Len(seq) = 1 THEN seq[1]
    ELSE LET rest == MinByPopularity(G, Tail(seq))
         IN  IF PopularityGet(G, rest) < PopularityGet(G, seq[1]) THEN rest ELSE seq[1]

ClosestResult(G, dist, s) ==
    LET f == filtered_candidates(G, dist, s)
    IN  IF f # <<>> THEN MinByPopularity(G, f) ELSE None

\* find_closest_candidates: min_dist over the other vertices (default inf),
\* the vertices at min_dist, then the window
CandidatesMinDist(G, dist, s) ==
    LET others == {dist[v] : v \in Registered(G) \ {s}}
    IN  IF others = {} THEN Inf ELSE CHOOSE d \in others : \A e \in others : d <= e

CandidatesResult(G, dist, s) ==
    LET md == CandidatesMinDist(G, dist, s)
        cands == Filter(G.vertices, {v \in Registered(G) : v # s /\ dist[v] = md})
    IN  Filter(cands, InWindow(G, s))

\* mutant of KeyLess: the sort key is the distance alone
KeyLess_DistanceOnly(G, dist, a, b) == dist[a] < dist[b]

\* get_top_n_recommendations: the sort key (distance, popularity)
KeyLess(G, dist, a, b) ==
    \/ dist[a] < dist[b]
    \/ dist[a] = dist[b] /\ PopularityGet(G, a) < PopularityGet(G, b)

\* sorted() is stable: x goes after every element whose key is not greater
RECURSIVE InsertSorted(_, _, _, _)
InsertSorted(G, dist, sorted, x) ==
    IF sorted = <<>> THEN <<x>>
    ELSE IF KeyLess(G, dist, x, Head(sorted)) THEN <<x>> \o sorted
         ELSE <<Head(sorted)>> \o InsertSorted(G, dist, Tail(sorted), x)

RECURSIVE SortedBy(_, _, _)
SortedBy(G, dist, seq) ==
    IF seq = <<>> THEN <<>>
    ELSE InsertSorted(G, dist, SortedBy(G, dist, SubSeq(seq, 1, Len(seq) - 1)), seq[Len(seq)])

\* mutant of TopNCandidates: the popularity window of find_closest_anime is
\* applied to the candidates
TopNCandidates_Windowed(G, dist, s) ==
    Filter(G.vertices,
           {v \in Registered(G) :
               /\ v # s /\ dist[v] # Inf
               /\ WithinWindow(PopularityGet(G, v), PopularityGet(G, s))})

TopNCandidates(G, dist, s) ==
    Filter(G.vertices, {v \in Registered(G) : v # s /\ dist[v] # Inf})

\* mutant of TopNResult: the slice keeps one item too many
TopNResult_OneMore(G, dist, s, k) ==
    LET sorted_candidates == SortedBy(G, dist, TopNCandidates(G, dist, s))
    IN  SubSeq(sorted_candidates, 1, Min2(k + 1, Len(sorted_candidates)))

TopNResult(G, dist, s, k) ==
    LET sorted_candidates == SortedBy(G, dist, TopNCandidates(G, dist, s))
    IN  SubSeq(sorted_candidates, 1, Min2(k, Len(sorted_candidates)))

\* ------------------------------------------------------ build_anime_graph
\* table[key].add(anime_id), creating the set on first use
\* A str is the sequence of its characters.
\* str.strip(): the leading and the trailing blanks removed
RECURSIVE LStrip(_)
LStrip(t) == IF t # <<>> /\ Head(t) = " " THEN LStrip(Tail(t)) ELSE t

RECURSIVE RStrip(_)
RStrip(t) == IF t # <<>> /\ t[Len(t)] = " " THEN RStrip(SubSeq(t, 1, Len(t) - 1)) ELSE t

Strip(t) == RStrip(LStrip(t))

\* str.lower() on the characters of the model
LowerChar(c) == IF c = "A" THEN "a" ELSE IF c = "B" THEN "b" ELSE c

Lower(t) == [i \in 1..Len(t) |-> LowerChar(t[i])]

\* norm_title.strip().lower()
Normalize(norm_title) == Lower(Strip(norm_title))

\* [title, title_english, title_japanese] + title_synonyms of a row
NormalizedTitles(row) ==
    <<row.title, row.title_english, row.title_japanese>> \o row.title_synonyms

\* mutant of RegisterTitles: a title already in the index keeps its identifier
RECURSIVE RegisterTitles_KeepFirst(_, _, _)
RegisterTitles_KeepFirst(index, normalized_titles, anime_id) ==
    IF normalized_titles = <<>> THEN index
    ELSE LET k == Normalize(Head(normalized_titles))
         IN  RegisterTitles_KeepFirst(IF k \in DOMAIN index THEN index ELSE Put(index, k, anime_id),
                                      Tail(normalized_titles), anime_id)

\* "for norm_title in normalized_titles: title_to_id[...] = anime_id"
RECURSIVE RegisterTitles(_, _, _)
RegisterTitles(index, normalized_titles, anime_id) ==
    IF normalized_titles = <<>> THEN index
    ELSE RegisterTitles(Put(index, Normalize(Head(normalized_titles)), anime_id),
                        Tail(normalized_titles), anime_id)

AddToGroup(table, key, anime_id) ==
    Put(table, key, (IF key \in DOMAIN table THEN table[key] ELSE {}) \cup {anime_id})

RECURSIVE AddToGroups(_, _, _)
AddToGroups(table, keys, anime_id) ==
    IF keys = {} THEN table
    ELSE LET k == CHOOSE k \in keys : TRUE
         IN  AddToGroups(AddToGroup(table, k, anime_id), keys \ {k}, anime_id)

\* the pairs (anime_list[i], anime_list[j]), i < j, of every group of a table
GroupPairs(table) ==
    UNION {{p \in table[g] \X table[g] : p[1] < p[2]} : g \in DOMAIN table}

\* the pairs (anime_id, related_anime) with related_anime in data
RelatedPairs(d) ==
    UNION {{<<a, r>> : r \in d[a] \cap DOMAIN d} : a \in DOMAIN d}

\* graph.add_edge(p[1], p[2], weight) for every pair p.  The calls of one
\* pass carry the same weight, so they commute and their order is immaterial.
RECURSIVE AddEdges(_, _, _)
AddEdges(G, pairs, weight) ==
    IF pairs = {} THEN G
    ELSE LET p == CHOOSE p \in pairs : TRUE
         IN  AddEdges(add_edge(G, p[1], p[2], weight), pairs \ {p}, weight)

\* ------------------------------------------------------------------ state
VARIABLES
    graph,      \* the Graph object
    pc,         \* "idle", "loop" (inside while pq), "done" (returned)
    fn,         \* the query method: "closest", "candidates", "top_n"
    start,      \* its start argument
    n,          \* its n argument (top_n), 0 otherwise
    pq,         \* the heap
    distances,  \* the distances dict
    visited,    \* the visited set
    result,     \* the returned value
    bpc,        \* build_anime_graph: "read", "genre", "studio", "related",
                \* "built"; "api" when the Graph is driven by its methods
    nrows,      \* rows read so far
    data,       \* data[anime_id]: the related list of the tuple
    genre_to_anime,
    studio_to_anime,
    title_to_id,    \* normalized title -> anime_id
    data_title,     \* data_title[anime_id]: the title of the tuple data[anime_id]
    rows,           \* the rows read so far: anime_id and the titles of each
    \* main.py
    mpc,            \* "off" (main.py is not running), "events" (the main
                    \* loop), "IndexError" (ended by the uncaught exception)
    active,
    user_text,
    recommendation,
    pending_recommendation,
    error_message,
    pending_error,
    current_recs,
    top_n_recs,
    closest_recommendation,
    last_input,
    rec_index,
    searching,
    search_start_time,   \* 0, or Ticks once a search was started
    search_action,
    first_rec_done,
    recomputed,     \* history: the last search ran lines 208-213 of main.py
    prev_input,     \* history: last_input when the last search began
    \* queries run by several threads on one graph
    calls,          \* calls[t]: pc, fn, start, n and result of the call of thread t
    frames          \* frames[f]: the locals pq, distances and visited of a call

query == <<pc, fn, start, n, pq, distances, visited, result>>

tables == <<nrows, data, genre_to_anime, studio_to_anime, title_to_id, data_title, rows>>

build == <<bpc, tables>>

session == <<mpc, active, user_text, recommendation, pending_recommendation,
             error_message, pending_error, current_recs, top_n_recs,
             closest_recommendation, last_input, rec_index, searching,
             search_start_time, search_action, first_rec_done, recomputed,
             prev_input>>

threads == <<calls, frames>>

vars == <<graph, query, build, session, threads>>

Fns == {"closest", "candidates", "top_n"}

NoQuery ==
    /\ pc = "idle" /\ fn = "none" /\ start = None /\ n = 0
    /\ pq = {} /\ distances = EmptyDict /\ visited = {} /\ result = None

NoBuild ==
    /\ nrows = 0 /\ data = EmptyDict
    /\ genre_to_anime = EmptyDict /\ studio_to_anime = EmptyDict
    /\ title_to_id = EmptyDict /\ data_title = EmptyDict /\ rows = <<>>

\* the state variables of main.py as its lines 45-62 and 123-125 set them
NoSession ==
    /\ active = FALSE
    /\ user_text = <<>>
    /\ recommendation = <<>> /\ pending_recommendation = <<>>
    /\ error_message = "" /\ pending_error = ""
    /\ current_recs = <<>> /\ top_n_recs = <<>>
    /\ closest_recommendation = <<>>
    /\ last_input = <<>>
    /\ rec_index = 0
    /\ searching = FALSE /\ search_start_time = 0 /\ search_action = "None"
    /\ first_rec_done = FALSE
    /\ recomputed = FALSE /\ prev_input = <<>>

\* a Graph() driven through its methods
Threads == 1..MaxThreads

\* no call is running
IdleCall == [pc |-> "idle", fn |-> "none", start |-> None, n |-> 0, result |-> None]

NoFrame == [pq |-> {}, distances |-> EmptyDict, visited |-> {}]

NoThreads ==
    /\ calls = [t \in Threads |-> IdleCall]
    /\ frames = [t \in Threads |-> NoFrame]

Init ==
    /\ graph = EmptyGraph
    /\ NoQuery
    /\ bpc = "api"
    /\ NoBuild
    /\ mpc = "off" /\ NoSession
    /\ NoThreads

\* the stored edges, an edge of a vertex to itself included
Edges(G) == UNION {{{u, v} : v \in DOMAIN G.neighbours[u]} : u \in Registered(G)}

\* Identifiers are opaque to the program: the model names the k-th distinct
\* identifier it registers k, so an identifier handed to add_vertex is a
\* registered one or the next unused one.
SeenOrNext(G) == 1..Min2(MaxId, Len(G.vertices) + 1)

\* graph.add_vertex(item, popularity)
AddVertex ==
    /\ bpc = "api" /\ pc = "idle"
    /\ \E item \in SeenOrNext(graph), pop \in Ranks : graph' = add_vertex(graph, item, pop)
    /\ UNCHANGED <<query, build, session, threads>>

\* graph.add_edge(item1, item2, weight)
AddEdge ==
    /\ bpc = "api" /\ pc = "idle"
    /\ \E item1 \in Ids, item2 \in Ids, weight \in Weights :
          /\ graph' = add_edge(graph, item1, item2, weight)
          /\ Cardinality(Edges(graph')) <= MaxEdges
    /\ UNCHANGED <<query, build, session, threads>>

\* the result of a query on an identifier that is not a vertex
NotFoundResult(f) == IF f = "closest" THEN None ELSE <<>>

\* mutant of Call: a query on an identifier that is not a vertex registers
\* it (a vertex created on lookup) before it returns
Call_RegistersStart ==
    /\ bpc = "api" /\ pc = "idle"
    /\ \E s \in Ids :
          /\ start' = s
          /\ IF s \notin Registered(graph)
             THEN /\ pc' = "done"
                  /\ \E f \in Fns, k \in 0..MaxN :
                        /\ f # "top_n" => k = 0
                        /\ fn' = f /\ n' = k
                        /\ result' = NotFoundResult(f)
                  /\ graph' = add_vertex(graph, s, Inf)
                  /\ UNCHANGED <<pq, distances, visited>>
             ELSE /\ pc' = "loop"
                  /\ pq' = {<<0, s>>}
                  /\ distances' = [v \in Registered(graph) |-> IF v = s THEN 0 ELSE Inf]
                  /\ visited' = {}
                  /\ UNCHANGED <<graph, fn, n, result>>
    /\ UNCHANGED <<build, session, threads>>

\* The three query methods run the same code up to the end of the while
\* loop; the method and n are read only after the loop (or at the early
\* return), and the model draws them there.
Call ==
    /\ bpc = "api" /\ pc = "idle"
    /\ \E s \in Ids :
          /\ start' = s
          /\ IF s \notin Registered(graph)
             THEN /\ pc' = "done"
                  /\ \E f \in Fns, k \in 0..MaxN :
                        /\ f # "top_n" => k = 0
                        /\ fn' = f /\ n' = k
                        /\ result' = NotFoundResult(f)
                  /\ UNCHANGED <<pq, distances, visited>>
             ELSE /\ pc' = "loop"
                  /\ pq' = {<<0, s>>}
                  /\ distances' = [v \in Registered(graph) |-> IF v = s THEN 0 ELSE Inf]
                  /\ visited' = {}
                  /\ UNCHANGED <<fn, n, result>>
    /\ UNCHANGED <<graph, build, session, threads>>

\* mutant of Step: a destructive traversal, the edges of the vertex taken
\* from the heap are popped out of the graph once they are relaxed
Step_ConsumesEdges ==
    /\ pc = "loop"
    /\ pq # {}
    /\ LET e == HeapMin(pq)
           current_distance == e[1]
           current == e[2]
       IN  IF current \in visited
           THEN /\ pq' = pq \ {e}
                /\ UNCHANGED <<graph, distances, visited>>
           ELSE /\ visited' = visited \cup {current}
                /\ distances' = RelaxedDistances(graph, distances, visited', current, current_distance)
                /\ pq' = (pq \ {e}) \cup Pushed(graph, distances, visited', current, current_distance)
                /\ graph' = [graph EXCEPT !.neighbours[current] = EmptyDict]
    /\ UNCHANGED <<pc, fn, start, n, result, build, session, threads>>

\* one iteration of "while pq"
Step ==
    /\ pc = "loop"
    /\ pq # {}
    /\ LET e == HeapMin(pq)
           current_distance == e[1]
           current == e[2]
       IN  IF current \in visited
           THEN /\ pq' = pq \ {e}
                /\ UNCHANGED <<distances, visited>>
           ELSE /\ visited' = visited \cup {current}
                /\ distances' = RelaxedDistances(graph, distances, visited', current, current_distance)
                /\ pq' = (pq \ {e}) \cup Pushed(graph, distances, visited', current, current_distance)
    /\ UNCHANGED <<graph, pc, fn, start, n, result, build, session, threads>>

\* the while loop run to its end from the state <<heap, dist, vis>>: the
\* distances dict when pq is empty
RECURSIVE DijkstraRun(_, _, _, _)
DijkstraRun(G, heap, dist, vis) ==
    IF heap = {} THEN dist
    ELSE LET e == HeapMin(heap)
             current_distance == e[1]
             current == e[2]
         IN  IF current \in vis
             THEN DijkstraRun(G, heap \ {e}, dist, vis)
             ELSE DijkstraRun(G,
                      (heap \ {e}) \cup Pushed(G, dist, vis \cup {current}, current, current_distance),
                      RelaxedDistances(G, dist, vis \cup {current}, current, current_distance),
                      vis \cup {current})

\* the distances dict of a query from the registered vertex s
DijkstraDistances(G, s) ==
    DijkstraRun(G, {<<0, s>>}, [v \in Registered(G) |-> IF v = s THEN 0 ELSE Inf], {})

QueryResult(G, f, dist, s, k) ==
    IF f = "closest" THEN ClosestResult(G, dist, s)
    ELSE IF f = "candidates" THEN CandidatesResult(G, dist, s)
    ELSE TopNResult(G, dist, s, k)

\* the loop has ended: the code after it, up to the return
Finish ==
    /\ pc = "loop"
    /\ pq = {}
    /\ \E f \in Fns, k \in 0..MaxN :
          /\ f # "top_n" => k = 0
          /\ fn' = f /\ n' = k
          /\ result' = QueryResult(graph, f, distances, start, k)
    /\ pc' = "done"
    /\ UNCHANGED <<graph, start, pq, distances, visited, build, session, threads>>

\* the caller takes the result; the locals of the call are gone
Return ==
    /\ pc = "done"
    /\ pc' = "idle" /\ fn' = "none" /\ start' = None /\ n' = 0
    /\ pq' = {} /\ distances' = EmptyDict /\ visited' = {} /\ result' = None
    /\ UNCHANGED <<graph, build, session, threads>>

\* ------------------------------------------------- build_anime_graph steps
InitBuild ==
    /\ graph = EmptyGraph
    /\ NoQuery
    /\ bpc = "read"
    /\ NoBuild
    /\ mpc = "off" /\ NoSession
    /\ NoThreads

\* The title of record anime_id in the catalogs of SpecBuild: each record
\* has a name of its own and no other title.
IdTitle(anime_id) == [i \in 1..anime_id |-> "a"]

BuildTitles ==
    [anime_id \in Ids |->
        {[title |-> IdTitle(anime_id), title_english |-> <<>>,
          title_japanese |-> <<>>, title_synonyms |-> <<>>]}]

\* one iteration of "for row in reader", the fields of the row drawn from
\* the sets given
ReadRowFrom(RowIds, RowTitles, RowGenres, RowStudios, RowRelated, RowPopularity) ==
    /\ bpc = "read"
    /\ nrows < MaxRows
    /\ \E anime_id \in RowIds, genres \in RowGenres, studio \in RowStudios,
          related \in RowRelated, popularity \in RowPopularity :
          \E row \in RowTitles[anime_id] :
              /\ graph' = add_vertex(graph, anime_id, popularity)
              /\ data' = Put(data, anime_id, related)
              /\ data_title' = Put(data_title, anime_id, row.title)
              /\ title_to_id' = RegisterTitles(title_to_id, NormalizedTitles(row), anime_id)
              /\ genre_to_anime' = AddToGroups(genre_to_anime, genres, anime_id)
              /\ studio_to_anime' = IF studio # NoStudio
                                    THEN AddToGroup(studio_to_anime, studio, anime_id)
                                    ELSE studio_to_anime
              /\ rows' = Append(rows, [anime_id |-> anime_id,
                                       titles |-> Range(NormalizedTitles(row))])
    /\ nrows' = nrows + 1
    /\ UNCHANGED <<query, bpc, session, threads>>

ReadRow ==
    ReadRowFrom(SeenOrNext(graph), BuildTitles, SUBSET Genres, Studios \cup {NoStudio},
                SUBSET Ids, RowRanks)

\* the reader is exhausted; "for anime_list in genre_to_anime.values()"
GenrePass ==
    /\ bpc = "read"
    /\ graph' = AddEdges(graph, GroupPairs(genre_to_anime), GenreWeight)
    /\ bpc' = "studio"
    /\ UNCHANGED <<query, tables, session, threads>>

\* "for anime_list in studio_to_anime.values()"
StudioPass ==
    /\ bpc = "studio"
    /\ graph' = AddEdges(graph, GroupPairs(studio_to_anime), StudioWeight)
    /\ bpc' = "related"
    /\ UNCHANGED <<query, tables, session, threads>>

\* "for anime_id, (_, _, _, related) in data.items()", and the return
RelatedPass ==
    /\ bpc = "related"
    /\ graph' = AddEdges(graph, RelatedPairs(data), RelatedWeight)
    /\ bpc' = "built"
    /\ UNCHANGED <<query, tables, session, threads>>

NextBuild == ReadRow \/ GenrePass \/ StudioPass \/ RelatedPass

\* ------------------------------------ build_anime_graph on titled records
\* the title strings of the records of SpecAlias
RawTitles == {<<>>, <<"a">>, <<"A", " ">>, <<" ", "b">>}

\* row["title_synonyms"].split(", ") if row["title_synonyms"] else []
SynonymLists == {<<>>} \cup {<<t>> : t \in RawTitles \ {<<>>}}

AliasTitles ==
    [anime_id \in Ids |->
        [title : RawTitles, title_english : RawTitles,
         title_japanese : RawTitles, title_synonyms : SynonymLists]]

\* one iteration of "for row in reader" on a record with titles, no genre,
\* no studio and no related record
ReadTitledRow ==
    ReadRowFrom(SeenOrNext(graph), AliasTitles, {{}}, {NoStudio}, {{}}, {10})

NextAlias == ReadTitledRow \/ GenrePass \/ StudioPass \/ RelatedPass

SpecAlias == InitBuild /\ [][NextAlias]_vars

\* ------------------------------------------------------ main.py: the input
\* input_anime = user_text.strip().lower()
NormalizeInput(text) == Lower(Strip(text))

\* the identifier the input resolves to, None when the test
\* "input_anime in title_to_id and input_anime != ''" fails
Resolve(text) ==
    LET input_anime == NormalizeInput(text)
    IN  IF input_anime \in DOMAIN title_to_id /\ input_anime # <<>>
        THEN title_to_id[input_anime]
        ELSE None

SpecBuild == InitBuild /\ [][NextBuild]_vars

\* the two engine calls of main.py, each run to its return
find_closest_anime(G, s) ==
    IF s \notin Registered(G) THEN None
    ELSE ClosestResult(G, DijkstraDistances(G, s), s)

get_top_n_recommendations(G, s, k) ==
    IF s \notin Registered(G) THEN <<>>
    ELSE TopNResult(G, DijkstraDistances(G, s), s, k)

\* ---------------------------------------------------- main.py: the session
\* The catalogs of SpecSession: up to MaxRows records with identifiers of
\* their own; record 1 is titled "a" and "b" in English, record 2 "Ab", the
\* others "bb", "bbb", ...; each with or without the genre, at rank 10 or 500.
SessionTitle(anime_id) ==
    IF anime_id = 1 THEN <<"a">>
    ELSE IF anime_id = 2 THEN <<"A", "b">>
    ELSE [i \in 1..(anime_id - 1) |-> "b"]

SessionTitles ==
    [anime_id \in Ids |->
        {[title |-> SessionTitle(anime_id),
          title_english |-> IF anime_id = 1 THEN <<"b">> ELSE <<>>,
          title_japanese |-> <<>>, title_synonyms |-> <<>>]}]

SessionRanks == {10, 500}

ReadCatalogRow ==
    ReadRowFrom({Len(graph.vertices) + 1} \cap Ids, SessionTitles, SUBSET Genres,
                {NoStudio}, {{}}, SessionRanks)

\* main.py from its start: the catalog is built, then the main loop runs
InitSession ==
    /\ graph = EmptyGraph
    /\ NoQuery
    /\ bpc = "read"
    /\ NoBuild
    /\ mpc = "run" /\ NoSession
    /\ NoThreads

\* the main loop is running on the built catalog
Running == bpc = "built" /\ mpc = "run"

\* the characters of a KEYDOWN event
TypedChars == {"a", "b", "A", " "}

\* MOUSEBUTTONDOWN inside input_box
ClickInputBox ==
    /\ Running
    /\ active' = TRUE
    /\ UNCHANGED <<graph, query, threads, build, mpc, user_text, recommendation,
                   pending_recommendation, error_message, pending_error,
                   current_recs, top_n_recs, closest_recommendation, last_input,
                   rec_index, searching, search_start_time, search_action,
                   first_rec_done, recomputed, prev_input>>

\* MOUSEBUTTONDOWN outside the input box and the two buttons
ClickElsewhere ==
    /\ Running
    /\ active' = FALSE
    /\ UNCHANGED <<graph, query, threads, build, mpc, user_text, recommendation,
                   pending_recommendation, error_message, pending_error,
                   current_recs, top_n_recs, closest_recommendation, last_input,
                   rec_index, searching, search_start_time, search_action,
                   first_rec_done, recomputed, prev_input>>

\* MOUSEBUTTONDOWN inside new_rec_button
ClickRecommend ==
    /\ Running
    /\ active' = FALSE
    /\ IF ~searching
       THEN /\ search_action' = IF first_rec_done THEN "new" ELSE "submit"
            /\ search_start_time' = Ticks
            /\ searching' = TRUE
       ELSE UNCHANGED <<search_action, search_start_time, searching>>
    /\ UNCHANGED <<graph, query, threads, build, mpc, user_text, recommendation,
                   pending_recommendation, error_message, pending_error,
                   current_recs, top_n_recs, closest_recommendation, last_input,
                   rec_index, first_rec_done, recomputed, prev_input>>

\* mutant of ClickReset: the search in progress is left running
ClickReset_KeepsSearching ==
    /\ Running
    /\ active' = FALSE
    /\ user_text' = <<>>
    /\ recommendation' = <<>> /\ pending_recommendation' = <<>>
    /\ error_message' = "" /\ pending_error' = ""
    /\ current_recs' = <<>> /\ top_n_recs' = <<>>
    /\ closest_recommendation' = <<>>
    /\ last_input' = <<>>
    /\ rec_index' = 0
    /\ first_rec_done' = FALSE
    /\ recomputed' = FALSE /\ prev_input' = <<>>
    /\ UNCHANGED <<graph, query, threads, build, mpc, search_start_time, search_action, searching>>

\* MOUSEBUTTONDOWN inside reset_button (the history variables restart too)
ClickReset ==
    /\ Running
    /\ active' = FALSE
    /\ user_text' = <<>>
    /\ recommendation' = <<>> /\ pending_recommendation' = <<>>
    /\ error_message' = "" /\ pending_error' = ""
    /\ current_recs' = <<>> /\ top_n_recs' = <<>>
    /\ closest_recommendation' = <<>>
    /\ last_input' = <<>>
    /\ rec_index' = 0
    /\ search_action' = "None"
    /\ searching' = FALSE
    /\ first_rec_done' = FALSE
    /\ recomputed' = FALSE /\ prev_input' = <<>>
    /\ UNCHANGED <<graph, query, threads, build, mpc, search_start_time>>

\* KEYDOWN of a character while the input box is active
KeyChar ==
    /\ Running
    /\ active
    /\ Len(user_text) < MaxTextLen
    /\ \E unicode \in TypedChars : user_text' = Append(user_text, unicode)
    /\ UNCHANGED <<graph, query, threads, build, mpc, active, recommendation,
                   pending_recommendation, error_message, pending_error,
                   current_recs, top_n_recs, closest_recommendation, last_input,
                   rec_index, searching, search_start_time, search_action,
                   first_rec_done, recomputed, prev_input>>

\* KEYDOWN of K_BACKSPACE while the input box is active: user_text[:-1]
KeyBackspace ==
    /\ Running
    /\ active
    /\ user_text' = SubSeq(user_text, 1, Len(user_text) - 1)
    /\ UNCHANGED <<graph, query, threads, build, mpc, active, recommendation,
                   pending_recommendation, error_message, pending_error,
                   current_recs, top_n_recs, closest_recommendation, last_input,
                   rec_index, searching, search_start_time, search_action,
                   first_rec_done, recomputed, prev_input>>

\* anime_data[...][4] on the tuple of build_anime_graph: an index past its
\* last component raises IndexError
ImageUrlRaises == ImageIndex >= DataTupleLen

\* lines 233-240: the pending values are shown and the search is over
Publish(rec, err) ==
    /\ recommendation' = rec
    /\ error_message' = err
    /\ pending_recommendation' = <<>>
    /\ pending_error' = ""
    /\ searching' = FALSE
    /\ search_action' = "None"
    /\ mpc' = mpc

\* the IndexError of line 193 or 219 leaves the loop and ends the program,
\* pending_recommendation assigned and nothing shown
Raise(pending) ==
    /\ mpc' = "IndexError"
    /\ pending_recommendation' = pending
    /\ UNCHANGED <<recommendation, error_message, pending_error, searching, search_action>>

\* [rec for rec in all_recs if rec != closest_id]
WithoutClosest(all_recs, closest_id) == Filter(all_recs, Range(all_recs) \ {closest_id})

\* mutant of InputChanged: the identifiers the two inputs resolve to are
\* compared, not the inputs
InputChanged_ByItem(input_anime, last) == Resolve(input_anime) # Resolve(last)

\* input_anime != last_input
InputChanged(input_anime, last) == input_anime # last

\* (rec_index + 1) % len(top_n_recs)
NextIndex(index, length) == (index + 1) % length

\* search_action == 'submit'
SubmitSearch(input_anime, anime_id) ==
    LET closest_id == find_closest_anime(graph, anime_id)
    IN  /\ first_rec_done' = TRUE
        /\ recomputed' = FALSE
        /\ IF closest_id # None
           THEN /\ closest_recommendation' = data_title[closest_id]
                /\ current_recs' = <<closest_id>>
                /\ last_input' = input_anime
                /\ rec_index' = 0
                /\ IF ImageUrlRaises
                   THEN /\ Raise(data_title[closest_id])
                        /\ UNCHANGED top_n_recs
                   ELSE /\ top_n_recs' = WithoutClosest(
                               get_top_n_recommendations(graph, anime_id, RecListSize), closest_id)
                        /\ Publish(data_title[closest_id], "")
           ELSE /\ closest_recommendation' = <<>>
                /\ current_recs' = <<>>
                /\ top_n_recs' = <<>>
                /\ Publish(<<>>, "No recommendations found.")
                /\ UNCHANGED <<last_input, rec_index>>

\* search_action == 'new'
NewSearch(input_anime, anime_id) ==
    LET changed == InputChanged(input_anime, last_input)
        closest_id == find_closest_anime(graph, anime_id)
        recs == IF changed
                THEN WithoutClosest(get_top_n_recommendations(graph, anime_id, RecListSize),
                                    closest_id)
                ELSE top_n_recs
        index == IF changed THEN 0 ELSE rec_index
    IN  /\ recomputed' = changed
        /\ closest_recommendation' =
               IF changed
               THEN (IF closest_id # None THEN data_title[closest_id] ELSE <<>>)
               ELSE closest_recommendation
        /\ last_input' = IF changed THEN input_anime ELSE last_input
        /\ top_n_recs' = recs
        /\ UNCHANGED <<first_rec_done, current_recs>>
        /\ IF recs # <<>>
           THEN LET next == NextIndex(index, Len(recs))
                    rec_id == recs[next + 1]
                IN  /\ rec_index' = next
                    /\ IF ImageUrlRaises
                       THEN Raise(data_title[rec_id])
                       ELSE Publish(data_title[rec_id], "")
           ELSE /\ rec_index' = index
                /\ Publish(<<>>, "No other recommendations available.")

\* "if searching: ... if elapsed >= SEARCH_DURATION": the search ends
SearchDone ==
    /\ Running
    /\ searching
    /\ prev_input' = last_input
    /\ LET input_anime == NormalizeInput(user_text)
       IN  IF input_anime \in DOMAIN title_to_id /\ input_anime # <<>>
           THEN IF search_action = "submit"
                THEN SubmitSearch(input_anime, title_to_id[input_anime])
                ELSE NewSearch(input_anime, title_to_id[input_anime])
           ELSE /\ Publish(<<>>, "Anime not found. Please check your input.")
                /\ recomputed' = FALSE
                /\ UNCHANGED <<first_rec_done, current_recs, top_n_recs,
                               closest_recommendation, last_input, rec_index>>
    /\ UNCHANGED <<graph, query, threads, build, active, user_text, search_start_time>>

NextSession ==
    \/ ReadCatalogRow \/ GenrePass \/ StudioPass \/ RelatedPass
    \/ ClickInputBox \/ ClickElsewhere \/ ClickRecommend \/ ClickReset
    \/ KeyChar \/ KeyBackspace
    \/ SearchDone

SpecSession == InitSession /\ [][NextSession]_vars

\* ------------------------------------------ queries on several threads
\* The graphs of SpecThreads: every identifier a vertex, of rank 10 or 500,
\* and every pair of vertices without an edge or with one of a weight of
\* Weights; built by add_vertex and add_edge.
RECURSIVE WithVertices(_, _, _)
WithVertices(G, k, rank) ==
    IF k > MaxId THEN G
    ELSE WithVertices(add_vertex(G, k, rank[k]), k + 1, rank)

RECURSIVE WithEdges(_, _, _)
WithEdges(G, w, weight) ==
    IF weight > MaxWeight THEN G
    ELSE WithEdges(AddEdges(G, {p \in DOMAIN w : w[p] = weight}, weight), w, weight + 1)

VertexPairs == {p \in Ids \X Ids : p[1] < p[2]}

ThreadGraphs ==
    {WithEdges(WithVertices(EmptyGraph, 1, rank), w, 1) :
        rank \in [Ids -> SessionRanks], w \in [VertexPairs -> 0..MaxWeight]}

InitThreads ==
    /\ graph \in ThreadGraphs
    /\ NoQuery
    /\ bpc = "api"
    /\ NoBuild
    /\ mpc = "off" /\ NoSession
    /\ NoThreads

\* mutant of Frame: pq, distances and visited are kept in one place for all
\* calls (scratch attributes of the Graph) instead of in the locals of each
Frame_Shared(t) == 1

\* the locals of the call of thread t are its own
Frame(t) == t

\* thread t calls a query method
ThreadCall(t) ==
    /\ calls[t].pc = "idle"
    /\ \E s \in Ids :
          IF s \notin Registered(graph)
          THEN /\ \E f \in Fns, k \in 0..MaxN :
                     /\ f # "top_n" => k = 0
                     /\ calls' = [calls EXCEPT ![t] =
                            [pc |-> "done", fn |-> f, start |-> s, n |-> k,
                             result |-> NotFoundResult(f)]]
               /\ UNCHANGED frames
          ELSE /\ calls' = [calls EXCEPT ![t].pc = "loop", ![t].start = s]
               /\ frames' = [frames EXCEPT ![Frame(t)] =
                      [pq |-> {<<0, s>>},
                       distances |-> [v \in Registered(graph) |-> IF v = s THEN 0 ELSE Inf],
                       visited |-> {}]]
    /\ UNCHANGED <<graph, query, build, session>>

\* one iteration of "while pq" of thread t
ThreadStep(t) ==
    /\ calls[t].pc = "loop"
    /\ frames[Frame(t)].pq # {}
    /\ LET fr == frames[Frame(t)]
           e == HeapMin(fr.pq)
           current_distance == e[1]
           current == e[2]
       IN  IF current \in fr.visited
           THEN frames' = [frames EXCEPT ![Frame(t)].pq = fr.pq \ {e}]
           ELSE frames' = [frames EXCEPT ![Frame(t)] =
                    [pq |-> (fr.pq \ {e}) \cup
                                Pushed(graph, fr.distances, fr.visited \cup {current},
                                       current, current_distance),
                     distances |-> RelaxedDistances(graph, fr.distances,
                                       fr.visited \cup {current}, current, current_distance),
                     visited |-> fr.visited \cup {current}]]
    /\ UNCHANGED <<graph, query, build, session, calls>>

\* the loop of thread t has ended: the code after it, up to the return
ThreadFinish(t) ==
    /\ calls[t].pc = "loop"
    /\ frames[Frame(t)].pq = {}
    /\ \E f \in Fns, k \in 0..MaxN :
          /\ f # "top_n" => k = 0
          /\ calls' = [calls EXCEPT ![t].pc = "done", ![t].fn = f, ![t].n = k,
                 ![t].result = QueryResult(graph, f, frames[Frame(t)].distances,
                                           calls[t].start, k)]
    /\ UNCHANGED <<graph, query, build, session, frames>>

\* the caller of thread t takes the result; the locals of the call are gone
ThreadReturn(t) ==
    /\ calls[t].pc = "done"
    /\ calls' = [calls EXCEPT ![t] = IdleCall]
    /\ frames' = [frames EXCEPT ![Frame(t)] = NoFrame]
    /\ UNCHANGED <<graph, query, build, session>>

NextThreads ==
    \E t \in Threads :
        ThreadCall(t) \/ ThreadStep(t) \/ ThreadFinish(t) \/ ThreadReturn(t)

SpecThreads == InitThreads /\ [][NextThreads]_vars

Next == AddVertex \/ AddEdge \/ Call \/ Step \/ Finish \/ Return

Spec == Init /\ [][Next]_vars

\* The while loop runs on its own thread of control and nothing makes it
\* wait: an iteration that can be taken is taken.
SpecLoop == Init /\ [][Next]_vars /\ WF_vars(Step)

\* --------------------------------------------------- reference definitions
\* The brute-force reference of the claims: the weight of every simple path
\* of the graph, enumerated, and its minimum.  (With positive weights a path
\* that repeats a vertex is never lighter than the simple path inside it.)
HasEdge(G, u, v) == v \in DOMAIN G.neighbours[u]

SimplePaths(G) ==
    UNION {{p \in [1..k -> Registered(G)] :
               /\ \A i \in 1..k, j \in 1..k : i # j => p[i] # p[j]
               /\ \A i \in 1..(k - 1) : HasEdge(G, p[i], p[i + 1])} :
           k \in 1..Cardinality(Registered(G))}

RECURSIVE PathWeight(_, _)
PathWeight(G, p) ==
    IF Len(p) <= 1 THEN 0
    ELSE G.neighbours[p[1]][p[2]] + PathWeight(G, Tail(p))

SetMin(S) == CHOOSE x \in S : \A y \in S : x <= y

\* the reference distances from s: for every vertex the least weight of a
\* simple path from s to it, Inf when there is none
BruteDistances(G, s) ==
    LET from == {q \in SimplePaths(G) : q[1] = s}
    IN  [v \in Registered(G) |->
            LET ws == {PathWeight(G, p) : p \in {q \in from : q[Len(q)] = v}}
            IN  IF ws = {} THEN Inf ELSE SetMin(ws)]

\* the vertices other than s that some path from s reaches, given the
\* reference distances ref from s
RefReachable(ref, s) == {v \in (DOMAIN ref) \ {s} : ref[v] # Inf}

\* both ranks known and at most 100 apart
RefWithin100(p, q) == p # Inf /\ q # Inf /\ p - q <= 100 /\ q - p <= 100

Rank(G, v) == G.popularity[v]

\* the while loop of a query on a registered start has ended
LoopEnded == pc \in {"loop", "done"} /\ pq = {} /\ start \in Registered(graph)

Returned(f) == pc = "done" /\ fn = f /\ start \in Registered(graph)

\* ----------------------------------------------------------------- claims
\* C1: when the Dijkstra loop finishes, the recorded distance of every vertex
\* is the least total weight over all paths from the source (brute force),
\* and a vertex no path reaches still holds infinity.
C1_DistancesMatchBruteForce ==
    LoopEnded => distances = BruteDistances(graph, start)

\* the loop lowered a distance it had recorded: a two-edge path of weight 2
\* beats the direct edge of weight 3
C1_Witness ==
    /\ LoopEnded
    /\ \E v \in Registered(graph) :
          /\ HasEdge(graph, start, v)
          /\ graph.neighbours[start][v] = 3
          /\ distances[v] = 2

\* C2: for a source that reaches another vertex, with d_min the least
\* distance of a reachable vertex and F the vertices at d_min whose rank is
\* within 100 of the source's, find_closest_anime returns a member of F of
\* least rank when F is not empty and None when it is.
C2_RefF(G, ref, s) ==
    LET dmin == SetMin({ref[v] : v \in RefReachable(ref, s)})
    IN  {v \in RefReachable(ref, s) :
            ref[v] = dmin /\ RefWithin100(Rank(G, v), Rank(G, s))}

C3_IsolatedSourceGetsNone ==
    (Returned("closest") /\ DOMAIN graph.neighbours[start] = {}) => result = None

\* C5, as claimed: the list of get_top_n_recommendations is sorted by
\* (distance, absolute difference of the rank to the source's rank).
C5_RefAbsDiff(p, q) ==
    IF p = Inf \/ q = Inf THEN Inf ELSE IF p >= q THEN p - q ELSE q - p

C5_SortedByDistanceThenRankDifference ==
    Returned("top_n") =>
        \A i \in 1..(Len(result) - 1) :
            LET ref == BruteDistances(graph, start)
                a == result[i]
                b == result[i + 1]
                da == ref[a]
                db == ref[b]
                ra == C5_RefAbsDiff(Rank(graph, a), Rank(graph, start))
                rb == C5_RefAbsDiff(Rank(graph, b), Rank(graph, start))
            IN  da < db \/ (da = db /\ ra <= rb)

\* C5, amended: the list of get_top_n_recommendations is sorted by
\* (distance, rank of the item), an unknown rank after every known one.
C5_SortedByDistanceThenRank ==
    Returned("top_n") =>
        \A i \in 1..(Len(result) - 1) :
            LET ref == BruteDistances(graph, start)
                a == result[i]
                b == result[i + 1]
                da == ref[a]
                db == ref[b]
            IN  da < db \/ (da = db /\ Rank(graph, a) <= Rank(graph, b))

\* two items at the same distance, registered in the order of decreasing
\* rank, come back in the order of increasing rank
C5_Witness ==
    /\ Returned("top_n")
    /\ Len(result) = 2
    /\ LET ref == BruteDistances(graph, start) IN ref[result[1]] = ref[result[2]]
    /\ Rank(graph, result[1]) < Rank(graph, result[2])
    /\ \E i \in 1..Len(graph.vertices), j \in 1..Len(graph.vertices) :
          i < j /\ graph.vertices[i] = result[2] /\ graph.vertices[j] = result[1]

\* C6, as claimed: every item of get_top_n_recommendations has a rank within
\* 100 of the source's, and the list is empty when the source's rank is
\* unknown.
C6_TopNWithinWindow ==
    Returned("top_n") =>
        /\ \A i \in 1..Len(result) : RefWithin100(Rank(graph, result[i]), Rank(graph, start))
        /\ Rank(graph, start) = Inf => result = <<>>

\* C6, amended: get_top_n_recommendations applies no popularity window: a
\* reachable vertex other than the source is missing from the list only when
\* the list is full (n items), whatever its rank and the source's rank.
C6_TopNIgnoresWindow ==
    Returned("top_n") =>
        \A v \in RefReachable(BruteDistances(graph, start), start) :
            v \in Range(result) \/ Len(result) = n

\* an item outside the window of the source is returned
C6_Witness ==
    /\ Returned("top_n")
    /\ \E i \in 1..Len(result) : ~RefWithin100(Rank(graph, result[i]), Rank(graph, start))

\* C7: get_top_n_recommendations returns at most n identifiers, none twice,
\* each reachable from the source; nothing for n = 0; and every reachable
\* vertex when there are at most n of them.
C7_TopNShape ==
    Returned("top_n") =>
        LET reachable == RefReachable(BruteDistances(graph, start), start)
        IN  /\ Len(result) <= n
            /\ \A i \in 1..Len(result), j \in 1..Len(result) : i # j => result[i] # result[j]
            /\ Range(result) \subseteq reachable
            /\ n = 0 => result = <<>>
            /\ Cardinality(reachable) <= n => Range(result) = reachable

\* the list was cut to n: one item returned of two reachable
C7_Witness ==
    /\ Returned("top_n")
    /\ n = 1 /\ Len(result) = 1
    /\ Cardinality(RefReachable(BruteDistances(graph, start), start)) = 2

\* C8: the distance of the source is 0 all along the Dijkstra loop and at
\* its end, and the source is never returned by find_closest_anime,
\* find_closest_candidates or get_top_n_recommendations.
C8_SourceAtZeroAndExcluded ==
    /\ (pc \in {"loop", "done"} /\ start \in Registered(graph)) => distances[start] = 0
    /\ Returned("closest") => result # start
    /\ Returned("candidates") => start \notin Range(result)
    /\ Returned("top_n") => start \notin Range(result)

\* the source has an edge to itself and lies on a cycle, and a list with
\* another vertex is returned
C8_Witness ==
    /\ Returned("top_n")
    /\ HasEdge(graph, start, start)
    /\ \E v \in Registered(graph) \ {start} : HasEdge(graph, start, v) /\ HasEdge(graph, v, start)
    /\ result # <<>>

\* C9: in every state reached by add_vertex and add_edge calls, v is a
\* neighbour of u with weight w exactly when u is a neighbour of v with
\* weight w.
C9_EdgeSymmetry ==
    \A u \in Registered(graph), v \in Registered(graph) :
        /\ HasEdge(graph, u, v) <=> HasEdge(graph, v, u)
        /\ HasEdge(graph, u, v) => graph.neighbours[u][v] = graph.neighbours[v][u]

\* edges of different weights between distinct vertices are stored
C9_Witness ==
    /\ bpc = "api"
    /\ \E u \in Registered(graph), v \in Registered(graph), x \in Registered(graph) :
          /\ u # v /\ v # x /\ u # x
          /\ HasEdge(graph, u, v) /\ graph.neighbours[u][v] = 3
          /\ HasEdge(graph, v, x) /\ graph.neighbours[v][x] = 1

\* C4: after build_anime_graph the weight stored for two distinct items is 1
\* if one lists the other as related, else 3 if they share a studio, else 2
\* if they share a genre, and there is no edge otherwise.
C4_Related(x, y) == y \in data[x] \/ x \in data[y]

C4_Share(table, x, y) == \E g \in DOMAIN table : x \in table[g] /\ y \in table[g]

C4_WeightByPrecedence ==
    bpc = "built" =>
        \A x \in Registered(graph), y \in Registered(graph) :
            x # y =>
                IF C4_Related(x, y)
                THEN HasEdge(graph, x, y) /\ graph.neighbours[x][y] = 1
                ELSE IF C4_Share(studio_to_anime, x, y)
                THEN HasEdge(graph, x, y) /\ graph.neighbours[x][y] = 3
                ELSE IF C4_Share(genre_to_anime, x, y)
                THEN HasEdge(graph, x, y) /\ graph.neighbours[x][y] = 2
                ELSE ~HasEdge(graph, x, y)

\* two items share a genre and are related, with weight 1; two others share
\* a genre and a studio, with weight 3
C4_Witness ==
    /\ bpc = "built"
    /\ \E x \in Registered(graph), y \in Registered(graph), z \in Registered(graph) :
          /\ x # y /\ y # z /\ x # z
          /\ C4_Share(genre_to_anime, x, y) /\ C4_Related(x, y)
          /\ graph.neighbours[x][y] = 1
          /\ C4_Share(genre_to_anime, x, z) /\ C4_Share(studio_to_anime, x, z)
          /\ ~C4_Related(x, z)
          /\ graph.neighbours[x][z] = 3

\* C10: in a built graph no vertex has an edge to itself.
C10_NoSelfLoopBuilt ==
    bpc = "built" => \A v \in Registered(graph) : ~HasEdge(graph, v, v)

\* C11: an unknown rank (math.inf) never passes the window filter.  A closest
\* query whose source has an unknown rank returns None, whatever the ranks of
\* the candidates, an unknown one included; and a vertex of unknown rank is
\* never the returned value of a closest query.
C11_UnknownRankNeverInWindow ==
    Returned("closest") =>
        /\ Rank(graph, start) = Inf => result = None
        /\ result # None => Rank(graph, result) # Inf

\* a closest query returned None for a source of unknown rank that has a
\* neighbour of unknown rank
C11_Witness ==
    /\ Returned("closest")
    /\ Rank(graph, start) = Inf
    /\ \E v \in DOMAIN graph.neighbours[start] :
           v # start /\ Rank(graph, v) = Inf
    /\ result = None

\* C17: a query on an identifier that is not a vertex returns at once, None
\* from find_closest_anime and the empty list from find_closest_candidates
\* and get_top_n_recommendations, and leaves the graph as it was.
C17_UnknownIdentifierReturnsEmpty ==
    [][(pc = "idle" /\ pc' # "idle" /\ start' \notin Registered(graph)) =>
          /\ pc' = "done"
          /\ fn' \in Fns
          /\ fn' = "closest" => result' = None
          /\ fn' # "closest" => result' = <<>>
          /\ graph' = graph]_vars

\* get_top_n_recommendations returned [] for an identifier that is not a
\* vertex of a graph that has an edge
C17_Witness ==
    /\ pc = "done"
    /\ start \notin Registered(graph)
    /\ fn = "top_n" /\ n > 0
    /\ result = <<>>
    /\ Edges(graph) # {}

\* C18: add_edge with an endpoint that is not a vertex changes nothing (no
\* vertex registered, adjacency and popularity as before); and in a built
\* graph a related identifier that names no record of the catalog has no
\* vertex and no edge.
C18_EdgeToUnknownIsNoOp ==
    /\ \A item1 \in Ids, item2 \in Ids, weight \in Weights :
          (item1 \notin Registered(graph) \/ item2 \notin Registered(graph))
              => add_edge(graph, item1, item2, weight) = graph
    /\ bpc = "built" =>
          \A x \in DOMAIN data : \A r \in data[x] :
              r \notin DOMAIN data =>
                  /\ r \notin Registered(graph)
                  /\ \A v \in Registered(graph) : r \notin DOMAIN graph.neighbours[v]

\* a built graph with an edge, one of whose records names a related
\* identifier that no record has
C18_Witness ==
    /\ bpc = "built"
    /\ Edges(graph) # {}
    /\ \E x \in DOMAIN data : \E r \in data[x] :
          r \notin DOMAIN data /\ \E y \in data[x] : y # x /\ y \in DOMAIN data

\* C19: add_vertex on a registered identifier changes nothing: the vertex
\* set, the edges and the first rank stay.  The popularity dict and the
\* neighbours are defined on exactly the vertex set, and a row read for an
\* identifier already registered leaves the graph as it was.
C19_Frame ==
    (nrows' = nrows + 1 /\ Registered(graph') = Registered(graph)) => graph' = graph

C19_State ==
    /\ DOMAIN graph.popularity = Registered(graph)
    /\ DOMAIN graph.neighbours = Registered(graph)
    /\ \A item \in Registered(graph), pop \in Ranks :
          add_vertex(graph, item, pop) = graph

C19_ReRegistrationIsNoOp == []C19_State /\ [][C19_Frame]_vars

\* more rows were read than vertices registered, and the built graph has an
\* edge
C19_Witness ==
    /\ bpc = "built"
    /\ nrows > Len(graph.vertices)
    /\ Edges(graph) # {}

\* C20: no step of a query changes the graph, and the value a query
\* returns is the value of the same query run again on the graph as it is
\* at the return.
C20_Repeatable ==
    Returned(fn) =>
        result = QueryResult(graph, fn, DijkstraDistances(graph, start), start, n)

C20_QueriesReadOnly ==
    []C20_Repeatable /\ [][(pc # "idle" \/ pc' # "idle") => graph' = graph]_vars

\* a top_n query returned two vertices of a graph with edges
C20_Witness ==
    /\ Returned("top_n")
    /\ Len(result) = 2
    /\ Edges(graph) # {}

\* C12: after build_anime_graph, every title string registered for a record
\* (title, English, Japanese, each synonym) resolves, trimmed and lower-cased,
\* to the identifier of that record, the same as its canonical title does.
C12_AliasRoundTrip ==
    bpc = "built" =>
        \A i \in 1..Len(rows) : \A t \in rows[i].titles :
            Resolve(t) = rows[i].anime_id

\* the rows that register the normalized string k
C12_Writers(k) == {j \in 1..Len(rows) : \E u \in rows[j].titles : Normalize(u) = k}

\* C12 as the code has it: a registered title string whose trimmed,
\* lower-cased form is not empty resolves to the identifier of the last row
\* that registers that form (the record's own identifier when no later row
\* of another record does), and one whose form is empty does not resolve.
C12_LastWriterWins ==
    bpc = "built" =>
        \A i \in 1..Len(rows) : \A t \in rows[i].titles :
            IF Normalize(t) = <<>>
            THEN Resolve(t) = None
            ELSE \E j \in C12_Writers(Normalize(t)) :
                    /\ \A j2 \in C12_Writers(Normalize(t)) : j2 <= j
                    /\ Resolve(t) = rows[j].anime_id

\* a built catalog in which "a" of one record and "A " of a later record
\* of another identifier meet on the same key, next to a title of the
\* first record that still resolves to it and an empty title
C12_Witness ==
    /\ bpc = "built"
    /\ \E i \in 1..Len(rows), j \in 1..Len(rows) :
          /\ i < j
          /\ rows[i].anime_id # rows[j].anime_id
          /\ <<"a">> \in rows[i].titles
          /\ <<"A", " ">> \in rows[j].titles
          /\ <<>> \in rows[i].titles
          /\ <<" ", "b">> \in rows[i].titles
          /\ Resolve(<<"a">>) = rows[j].anime_id
          /\ Resolve(<<" ", "b">>) = rows[i].anime_id

\* a search for 'Recommend Another' ends on an input that resolves
C13_NewRequestEnds ==
    /\ Running /\ searching /\ search_action = "new"
    /\ first_rec_done'
    /\ ~searching' \/ mpc' # "run"
    /\ Resolve(user_text) # None

\* C13: a 'Recommend Another' request on a cached list of length L >= 1
\* shows the entry at the cycle index, which stays within 0..L-1; with the
\* input unchanged the list is the one cached and the index the successor
\* modulo L of the one before, so that L requests in a row show every entry
\* once in list order and the next shows the first of them again.  With an
\* empty list the request ends with 'No other recommendations available.'
C13_AdvanceCycles ==
    [][C13_NewRequestEnds =>
          IF top_n_recs' = <<>>
          THEN /\ recommendation' = <<>>
               /\ error_message' = "No other recommendations available."
          ELSE /\ mpc' = "run"
               /\ rec_index' \in 0..(Len(top_n_recs') - 1)
               /\ recommendation' = data_title[top_n_recs'[rec_index' + 1]]
               /\ error_message' = ""
               /\ NormalizeInput(user_text) = last_input =>
                     /\ top_n_recs' = top_n_recs
                     /\ rec_index' = (rec_index + 1) % Len(top_n_recs)]_vars

\* C14: on 'Recommend Another' the cached list is computed again, and the
\* cycle index set back, only if the item the input resolves to is another
\* one than the item of the request before; on the same item, another alias
\* of it included, list and index are as they were before the advance.
C14_RecomputedOnlyOnItemChange ==
    [][C13_NewRequestEnds =>
          /\ recomputed' <=> Resolve(user_text) # Resolve(last_input)
          /\ Resolve(user_text) = Resolve(last_input) =>
                /\ top_n_recs' = top_n_recs
                /\ rec_index' = IF top_n_recs = <<>> THEN rec_index
                                ELSE (rec_index + 1) % Len(top_n_recs)]_vars

\* C14 as the code has it: the list is computed again, and the index set
\* back, exactly when the trimmed, lower-cased input text is another string
\* than the input text stored by the request before; with the same text, list
\* and stored text are as they were and the index advances from where it was.
C14_RecomputedOnTextChange ==
    [][C13_NewRequestEnds =>
          /\ recomputed' <=> NormalizeInput(user_text) # last_input
          /\ recomputed' =>
                /\ last_input' = NormalizeInput(user_text)
                /\ top_n_recs' = WithoutClosest(
                       get_top_n_recommendations(graph, Resolve(user_text), RecListSize),
                       find_closest_anime(graph, Resolve(user_text)))
                /\ rec_index' = IF top_n_recs' = <<>> THEN 0 ELSE 1 % Len(top_n_recs')
          /\ ~recomputed' =>
                /\ last_input' = last_input
                /\ top_n_recs' = top_n_recs
                /\ rec_index' = IF top_n_recs = <<>> THEN rec_index
                                ELSE (rec_index + 1) % Len(top_n_recs)]_vars

\* a 'Recommend Another' request has computed the list again although its
\* input, another alias, resolves to the item of the request before
C14_Witness ==
    /\ Running /\ ~searching
    /\ recomputed
    /\ prev_input # <<>> /\ prev_input # last_input
    /\ Resolve(last_input) # None
    /\ Resolve(prev_input) = Resolve(last_input)

\* a search for 'Get Recommendation' ends on an input that resolves to an
\* item with a closest result
C15_RecommendEnds ==
    /\ Running /\ searching /\ search_action = "submit"
    /\ first_rec_done'
    /\ ~searching' \/ mpc' # "run"
    /\ Resolve(user_text) # None
    /\ find_closest_anime(graph, Resolve(user_text)) # None

\* the cached list holds neither the item of the stored input nor the
\* closest result of that item
C15_ListExcludes ==
    \A i \in 1..Len(top_n_recs) :
        /\ top_n_recs[i] # Resolve(last_input)
        /\ top_n_recs[i] # find_closest_anime(graph, Resolve(last_input))

\* C15: after 'Get Recommendation' has found the closest result c of the
\* source s, the cached list is top_n(s, 50) without c, in the same order;
\* and at any time the cached list holds neither the closest result of the
\* item it was computed for nor that item.
C15_ListIsTopNWithoutClosest ==
    /\ []C15_ListExcludes
    /\ [][C15_RecommendEnds =>
             top_n_recs' = SelectSeq(
                 get_top_n_recommendations(graph, Resolve(user_text), RecListSize),
                 LAMBDA rec : rec # find_closest_anime(graph, Resolve(user_text)))]_vars

\* everything the Reset click clears
C16_Cleared ==
    /\ user_text = <<>>
    /\ recommendation = <<>> /\ pending_recommendation = <<>>
    /\ error_message = "" /\ pending_error = ""
    /\ current_recs = <<>> /\ top_n_recs = <<>>
    /\ closest_recommendation = <<>>
    /\ last_input = <<>>
    /\ rec_index = 0
    /\ search_action = "None"
    /\ ~searching
    /\ ~first_rec_done

\* C16: a Reset click clears the input text, the shown recommendation and
\* error, the cached list, the stored input, the cycle index, the pending
\* action and the 'first recommendation done' flag, whatever the state,
\* and ends a search in progress; the shown recommendation and error change
\* only at the end of a search in progress or at a Reset, and a search
\* starts only at a click on the recommend button, so the search that Reset
\* ended shows nothing afterwards.
C16_ResetGoesIdle ==
    /\ [][ClickReset => C16_Cleared']_vars
    /\ [][(recommendation' # recommendation \/ error_message' # error_message)
              => (searching \/ C16_Cleared')]_vars
    /\ [][(~searching /\ searching')
              => /\ search_start_time' = Ticks
                 /\ search_action' \in {"submit", "new"}
                 /\ recommendation' = recommendation
                 /\ error_message' = error_message]_vars

\* Reset was clicked after a search had been started: the session is as at
\* its start, search_start_time apart
C16_Witness ==
    /\ Running
    /\ search_start_time = Ticks
    /\ C16_Cleared

\* one iteration of the while loop
C23_Iteration == pc = "loop" /\ pc' = "loop" /\ pq' # pq

\* C23: the Dijkstra loop ends.  An iteration pops one entry; it either
\* finds the vertex visited and does nothing else, or adds that one vertex,
\* not visited before, to the visited set; an entry it pushes is strictly
\* below the distance recorded for its vertex, which it replaces.  So the
\* pair (vertices not visited, entries of the frontier) goes down in
\* lexicographic order at every iteration, and the frontier, never larger
\* than one entry per edge end and the seed, becomes empty: a loop that was
\* entered reaches "pq is empty".
C23_LoopTerminates ==
    /\ (pc = "loop") ~> (pc = "loop" /\ pq = {})
    /\ [](pc = "loop" =>
             /\ visited \subseteq Registered(graph)
             /\ \A e \in pq : e[2] \in Registered(graph) /\ e[1] < Inf
             /\ Cardinality(pq) <= 1 + 2 * Cardinality(Edges(graph)))
    /\ [][C23_Iteration =>
             /\ Cardinality(pq \ pq') = 1
             /\ \A e \in pq \ pq' :
                   IF e[2] \in visited
                   THEN visited' = visited /\ distances' = distances /\ pq' \subseteq pq
                   ELSE visited' = visited \cup {e[2]}
             /\ \A e \in pq' \ pq :
                   /\ e[2] \notin visited'
                   /\ e[1] < distances[e[2]]
                   /\ distances'[e[2]] = e[1]
             /\ \/ Cardinality(Registered(graph) \ visited')
                      < Cardinality(Registered(graph) \ visited)
                \/ /\ visited' = visited
                   /\ Cardinality(pq') < Cardinality(pq)]_vars

\* the loop has ended with every vertex of a three-vertex graph visited
\* after the distance of one of them was lowered below its first record
C23_Witness ==
    /\ pc = "loop"
    /\ pq = {}
    /\ Cardinality(visited) = 3
    /\ \E v \in visited : \E u \in DOMAIN graph.neighbours[start] :
          /\ u = v /\ v # start
          /\ distances[v] < graph.neighbours[start][v]

\* C21: calls whose iterations interleave on one graph do not disturb each
\* other.  While a call is in its loop, its own pq, distances and visited,
\* run on to the end with no other call, give the distances of the same
\* call run alone; and the value a call returns is the value it returns
\* when run alone.
C21_CallsDoNotInterfere ==
    \A t \in Threads :
        /\ calls[t].pc = "loop" =>
              DijkstraRun(graph, frames[t].pq, frames[t].distances, frames[t].visited)
                  = DijkstraDistances(graph, calls[t].start)
        /\ (calls[t].pc = "done" /\ calls[t].start \in Registered(graph)) =>
              calls[t].result =
                  QueryResult(graph, calls[t].fn,
                              DijkstraDistances(graph, calls[t].start),
                              calls[t].start, calls[t].n)

\* one call has returned its top_n list while another, from another source,
\* is in the middle of its loop, both on a graph with edges
C21_Witness ==
    \E t \in Threads, u \in Threads :
        /\ t # u
        /\ calls[t].start # calls[u].start
        /\ calls[t].pc = "done" /\ calls[t].fn = "top_n" /\ Len(calls[t].result) = 2
        /\ calls[u].pc = "loop"
        /\ frames[u].visited # {} /\ frames[u].pq # {}

\* the three error messages of the completion handler
C22_Errors ==
    {"Anime not found. Please check your input.",
     "No recommendations found.",
     "No other recommendations available."}

\* C22: every search completes.  The completion handler, on each of its
\* paths, leaves the main loop running with searching = False and the
\* pending action cleared, and shows either a recommendation and no error,
\* or one of the three error messages and no recommendation; a search is
\* never left in progress in a program that has ended.
C22_SearchCompletes ==
    /\ [](searching => mpc = "run")
    /\ [][SearchDone =>
             /\ mpc' = "run"
             /\ ~searching'
             /\ search_action' = "None"
             /\ \/ recommendation' # <<>> /\ error_message' = ""
                \/ recommendation' = <<>> /\ error_message' \in C22_Errors]_vars

\* C24: the first 'Recommend Another' request on a list just computed, by
\* a 'Get Recommendation' that found a closest result (the one still shown)
\* or by this request for a changed input, shows the first entry of the
\* list, index 0, when the list is not empty.
C24_FirstAdvanceShowsFirstEntry ==
    [][(/\ C13_NewRequestEnds
        /\ top_n_recs' # <<>>
        /\ \/ recomputed'
           \/ recommendation # <<>> /\ recommendation = closest_recommendation)
          => /\ mpc' = "run"
             /\ rec_index' = 0
             /\ recommendation' = data_title[top_n_recs'[1]]]_vars

\* the list of the claim for an input text: top_n(id, 50) of the item the
\* text resolves to, without the closest result of that item
C25_ListFor(text) ==
    SelectSeq(get_top_n_recommendations(graph, Resolve(text), RecListSize),
              LAMBDA rec : rec # find_closest_anime(graph, Resolve(text)))

\* C25: no stale recommendation.  Whenever an input is stored as the last
\* input, the cached list is the one computed for it; and a recommendation
\* that the end of a 'Recommend Another' search shows is the title of a
\* member of top_n(id, 50) for the id the input text resolves to at that
\* moment.
C25_NoStaleRecommendation ==
    /\ [](last_input # <<>> => top_n_recs = C25_ListFor(last_input))
    /\ [][(C13_NewRequestEnds /\ recommendation' # <<>>) =>
             \E rec \in Range(get_top_n_recommendations(
                                  graph, Resolve(user_text), RecListSize)) :
                 recommendation' = data_title[rec]]_vars

====
